---- MODULE Spec2Model ----
(***************************************************************************)
(* A model of the analytics core of sourcedsport_dashboard.py: the         *)
(* traffic-light classifier, the ACWR calculator and its zone mapping,     *)
(* and the weekly aggregation done by the two rendering functions.         *)
(*                                                                         *)
(* Numbers.  The program computes with Python floats.  The model computes  *)
(* with exact rationals, a pair <<n, d>> in lowest terms with d > 0, so    *)
(* every comparison and every test for zero is the exact one.              *)
(***************************************************************************)
EXTENDS Integers, Sequences, FiniteSets, TLC

VARIABLES
    pc,            \* position of the run
    call,          \* the helper call being made: function name and arguments
    result,        \* what the helper call returned
    df,            \* the session-record table (a sequence of rows)
    columns,       \* the column names of df
    weekly,        \* render_weekly_load_chart: the frame `weekly`
    weekly_player, \* render_acwr_monitor: the frame `weekly_player`
    passed,        \* render_acwr_monitor: per player, the frame `player_weeks`
    acwr_data,     \* render_acwr_monitor: the list `acwr_data`
    acwr_df,       \* render_acwr_monitor: the frame `acwr_df`
    error          \* the exception a rendering function raised, or "none"

vars == <<pc, call, result, df, columns, weekly, weekly_player, passed,
          acwr_data, acwr_df, error>>

-----------------------------------------------------------------------------
(* Bounds of the model *)

\* get_traffic_light is tried on every value within Delta of a threshold.
Delta == 2
\* weekly loads of a calculate_acwr call are drawn from -1 .. MaxLoad
MaxLoad == 3
\* a calculate_acwr call gets at most MaxLen weekly loads
MaxLen == 4
\* chronic_weeks is drawn from 0 .. MaxChronic, acute_weeks from 0 .. MaxAcute
MaxChronic == 4
MaxAcute == 2
\* get_acwr_status is tried on the ratios n / RatioDen, n in -1 .. MaxRatioNum
MaxRatioNum == 40
\* the record table has at most MaxRows rows
MaxRows == 4
\* an uploaded file has at most MaxHeaders columns
MaxHeaders == 2
\* generate_sample_data is called with n_players in 1 .. MaxPlayers and
\* n_weeks in 1 .. MaxWeeks, on one of the MaxDays + 1 days from FirstDay on
MaxPlayers == 2
MaxWeeks == 2
MaxDays == 30

-----------------------------------------------------------------------------
(* Exact rational arithmetic *)

Abs(x) == IF x < 0 THEN -x ELSE x

RECURSIVE Gcd(_, _)
Gcd(a, b) == IF b = 0 THEN a ELSE Gcd(b, a % b)

\* n / d in lowest terms with a positive denominator (d # 0)
Rat(n, d) ==
    LET g == Gcd(Abs(n), Abs(d))
        s == IF d < 0 THEN -1 ELSE 1
    IN  <<(s * n) \div g, (s * d) \div g>>

FromInt(n) == <<n, 1>>
RAdd(a, b) == Rat(a[1] * b[2] + b[1] * a[2], a[2] * b[2])
RSub(a, b) == Rat(a[1] * b[2] - b[1] * a[2], a[2] * b[2])
RMul(a, b) == Rat(a[1] * b[1], a[2] * b[2])
RDiv(a, b) == Rat(a[1] * b[2], a[2] * b[1])
RLt(a, b) == a[1] * b[2] < b[1] * a[2]
RLe(a, b) == a[1] * b[2] <= b[1] * a[2]
RIsZero(a) == a[1] = 0

-----------------------------------------------------------------------------
(* Benchmark tables *)

FIELD_HOCKEY_BENCHMARKS ==
    [total_distance |->
        [green |-> <<6000, 8000>>, yellow |-> <<8000, 9500>>,
         orange |-> <<9500, 11000>>, red_high |-> 11000, red_low |-> 5000],
     hsr_distance |->
        [green |-> <<1000, 1500>>, yellow |-> <<1500, 1800>>,
         orange |-> <<1800, 2200>>, red_high |-> 2200, red_low |-> 800],
     sprint_distance |->
        [green |-> <<200, 350>>, yellow |-> <<350, 450>>,
         orange |-> <<450, 600>>, red_high |-> 600, red_low |-> 150],
     accel_count |->
        [green |-> <<50, 70>>, yellow |-> <<70, 85>>,
         orange |-> <<85, 100>>, red_high |-> 100, red_low |-> 40],
     decel_count |->
        [green |-> <<45, 65>>, yellow |-> <<65, 80>>,
         orange |-> <<80, 95>>, red_high |-> 95, red_low |-> 35],
     player_load |->
        [green |-> <<500, 750>>, yellow |-> <<750, 900>>,
         orange |-> <<900, 1100>>, red_high |-> 1100, red_low |-> 400]]

ACWR_ZONES ==
    [green |-> <<Rat(8, 10), Rat(13, 10)>>,
     yellow_low |-> <<Rat(6, 10), Rat(8, 10)>>,
     yellow_high |-> <<Rat(13, 10), Rat(15, 10)>>,
     red_low |-> Rat(6, 10),
     red_high |-> Rat(15, 10)]

-----------------------------------------------------------------------------
(* get_traffic_light(value, metric) *)

get_traffic_light_first_band_wins(value, metric) ==
    IF metric \notin DOMAIN FIELD_HOCKEY_BENCHMARKS THEN "gray"
    ELSE LET benchmarks == FIELD_HOCKEY_BENCHMARKS[metric]
             green == benchmarks.green
             yellow == benchmarks.yellow
             orange == benchmarks.orange
         IN  IF value < benchmarks.red_low \/ value > benchmarks.red_high THEN "red"
             ELSE IF green[1] <= value /\ value <= green[2] THEN "green"
             ELSE IF yellow[1] <= value /\ value <= yellow[2] THEN "yellow"
             ELSE IF orange[1] <= value /\ value <= orange[2] THEN "orange"
             ELSE "yellow"

get_traffic_light_red_inclusive(value, metric) ==
    IF metric \notin DOMAIN FIELD_HOCKEY_BENCHMARKS THEN "gray"
    ELSE LET benchmarks == FIELD_HOCKEY_BENCHMARKS[metric]
             green == benchmarks.green
             yellow == benchmarks.yellow
             orange == benchmarks.orange
         IN  IF value <= benchmarks.red_low \/ value >= benchmarks.red_high THEN "red"
             ELSE IF orange[1] <= value /\ value <= orange[2] THEN "orange"
             ELSE IF yellow[1] <= value /\ value <= yellow[2] THEN "yellow"
             ELSE IF green[1] <= value /\ value <= green[2] THEN "green"
             ELSE "yellow"

get_traffic_light(value, metric) ==
    IF metric \notin DOMAIN FIELD_HOCKEY_BENCHMARKS THEN "gray"
    ELSE LET benchmarks == FIELD_HOCKEY_BENCHMARKS[metric]
             green == benchmarks.green
             yellow == benchmarks.yellow
             orange == benchmarks.orange
             red_high == benchmarks.red_high
             red_low == benchmarks.red_low
         IN  IF value < red_low \/ value > red_high THEN "red"
             ELSE IF orange[1] <= value /\ value <= orange[2] THEN "orange"
             ELSE IF yellow[1] <= value /\ value <= yellow[2] THEN "yellow"
             ELSE IF green[1] <= value /\ value <= green[2] THEN "green"
             ELSE "yellow"

-----------------------------------------------------------------------------
(* get_acwr_status(acwr) *)

\* A value a ratio variable can hold: None, a float NaN, or a number.
NoneValue == [kind |-> "None", val |-> <<0, 1>>]
NanValue == [kind |-> "nan", val |-> <<0, 1>>]
Number(r) == [kind |-> "num", val |-> r]
\* What a call that raised leaves behind.
Raised(exc) == [kind |-> exc, val |-> <<0, 1>>]

get_acwr_status_high_load_inclusive(acwr) ==
    IF acwr.kind # "num" THEN <<"gray", "No data">>
    ELSE LET r == acwr.val
         IN  IF RLe(ACWR_ZONES.green[1], r) /\ RLe(r, ACWR_ZONES.green[2])
                 THEN <<"green", "Optimal">>
             ELSE IF RLe(ACWR_ZONES.yellow_low[1], r) /\ RLt(r, ACWR_ZONES.green[1])
                 THEN <<"yellow", "Undertraining">>
             ELSE IF RLt(ACWR_ZONES.green[2], r) /\ RLt(r, ACWR_ZONES.yellow_high[2])
                 THEN <<"yellow", "High Load">>
             ELSE IF RLt(r, ACWR_ZONES.red_low)
                 THEN <<"red", "Detraining Risk">>
             ELSE <<"red", "Injury Risk">>

get_acwr_status(acwr) ==
    IF acwr.kind = "None" \/ acwr.kind = "nan" THEN <<"gray", "No data">>
    ELSE LET r == acwr.val
         IN  IF RLe(ACWR_ZONES.green[1], r) /\ RLe(r, ACWR_ZONES.green[2])
                 THEN <<"green", "Optimal">>
             ELSE IF RLe(ACWR_ZONES.yellow_low[1], r) /\ RLt(r, ACWR_ZONES.green[1])
                 THEN <<"yellow", "Undertraining">>
             ELSE IF RLt(ACWR_ZONES.green[2], r) /\ RLe(r, ACWR_ZONES.yellow_high[2])
                 THEN <<"yellow", "High Load">>
             ELSE IF RLt(r, ACWR_ZONES.red_low)
                 THEN <<"red", "Detraining Risk">>
             ELSE <<"red", "Injury Risk">>

-----------------------------------------------------------------------------
(* calculate_acwr(weekly_loads, acute_weeks, chronic_weeks) *)

Last(s) == s[Len(s)]

\* The loop of lines 299-301: chronic_ewma after folding loads[i..] into it.
RECURSIVE ewma_fold(_, _, _, _)
ewma_fold(weekly_loads, i, chronic_ewma, chronic_lambda) ==
    IF i > Len(weekly_loads) THEN chronic_ewma
    ELSE ewma_fold(weekly_loads, i + 1,
                   RAdd(RMul(FromInt(weekly_loads[i]), chronic_lambda),
                        RMul(chronic_ewma, RSub(FromInt(1), chronic_lambda))),
                   chronic_lambda)

calculate_acwr_no_length_guard(weekly_loads, acute_weeks, chronic_weeks) ==
    IF Len(weekly_loads) = 0 THEN NoneValue
    ELSE LET chronic_lambda == Rat(2, chronic_weeks * 7 + 1)
             chronic_ewma == ewma_fold(weekly_loads, 2, FromInt(weekly_loads[1]),
                                       chronic_lambda)
         IN  IF RIsZero(chronic_ewma) THEN NoneValue
             ELSE Number(RDiv(FromInt(Last(weekly_loads)), chronic_ewma))

calculate_acwr_no_zero_guard(weekly_loads, acute_weeks, chronic_weeks) ==
    IF Len(weekly_loads) < chronic_weeks THEN NoneValue
    ELSE IF Len(weekly_loads) = 0 THEN Raised("IndexError")
    ELSE LET chronic_lambda == Rat(2, chronic_weeks * 7 + 1)
             chronic_ewma == ewma_fold(weekly_loads, 2, FromInt(weekly_loads[1]),
                                       chronic_lambda)
         IN  IF RIsZero(chronic_ewma) THEN Raised("ZeroDivisionError")
             ELSE Number(RDiv(FromInt(Last(weekly_loads)), chronic_ewma))

calculate_acwr_smoothed_acute(weekly_loads, acute_weeks, chronic_weeks) ==
    IF Len(weekly_loads) < chronic_weeks THEN NoneValue
    ELSE IF Len(weekly_loads) = 0 THEN Raised("IndexError")
    ELSE LET acute_lambda == Rat(2, acute_weeks * 7 + 1)
             chronic_lambda == Rat(2, chronic_weeks * 7 + 1)
             acute_load == ewma_fold(weekly_loads, 2, FromInt(weekly_loads[1]),
                                     acute_lambda)
             chronic_ewma == ewma_fold(weekly_loads, 2, FromInt(weekly_loads[1]),
                                       chronic_lambda)
         IN  IF RIsZero(chronic_ewma) THEN NoneValue
             ELSE Number(RDiv(acute_load, chronic_ewma))

calculate_acwr_lambda_in_weeks(weekly_loads, acute_weeks, chronic_weeks) ==
    IF Len(weekly_loads) < chronic_weeks THEN NoneValue
    ELSE IF Len(weekly_loads) = 0 THEN Raised("IndexError")
    ELSE LET chronic_lambda == Rat(2, chronic_weeks + 1)
             chronic_ewma == ewma_fold(weekly_loads, 2, FromInt(weekly_loads[1]),
                                       chronic_lambda)
         IN  IF RIsZero(chronic_ewma) THEN NoneValue
             ELSE Number(RDiv(FromInt(Last(weekly_loads)), chronic_ewma))

calculate_acwr_acute_is_first(weekly_loads, acute_weeks, chronic_weeks) ==
    IF Len(weekly_loads) < chronic_weeks THEN NoneValue
    ELSE IF Len(weekly_loads) = 0 THEN Raised("IndexError")
    ELSE LET chronic_lambda == Rat(2, chronic_weeks * 7 + 1)
             chronic_ewma == ewma_fold(weekly_loads, 2, FromInt(weekly_loads[1]),
                                       chronic_lambda)
         IN  IF RIsZero(chronic_ewma) THEN NoneValue
             ELSE Number(RDiv(FromInt(weekly_loads[1]), chronic_ewma))

calculate_acwr(weekly_loads, acute_weeks, chronic_weeks) ==
    IF Len(weekly_loads) < chronic_weeks THEN NoneValue
    \* line 293: 2 / (acute_weeks * 7 + 1)
    ELSE IF acute_weeks * 7 + 1 = 0 THEN Raised("ZeroDivisionError")
    \* line 294: 2 / (chronic_weeks * 7 + 1)
    ELSE IF chronic_weeks * 7 + 1 = 0 THEN Raised("ZeroDivisionError")
    \* line 296: weekly_loads[-1] of an empty list
    ELSE IF Len(weekly_loads) = 0 THEN Raised("IndexError")
    ELSE LET acute_lambda == Rat(2, acute_weeks * 7 + 1)
             chronic_lambda == Rat(2, chronic_weeks * 7 + 1)
             acute_load == FromInt(Last(weekly_loads))
             chronic_ewma == ewma_fold(weekly_loads, 2, FromInt(weekly_loads[1]),
                                       chronic_lambda)
         IN  IF RIsZero(chronic_ewma) THEN NoneValue
             ELSE Number(RDiv(acute_load, chronic_ewma))

-----------------------------------------------------------------------------
(* Calendar: what .dt.isocalendar().week and .dt.year give for a date *)

\* a date is <<year, month, day>>
IsLeap(y) == (y % 4 = 0) /\ ((y % 100 # 0) \/ (y % 400 = 0))

DaysInMonth(y, m) ==
    IF m = 2 THEN (IF IsLeap(y) THEN 29 ELSE 28)
    ELSE IF m \in {4, 6, 9, 11} THEN 30 ELSE 31

RECURSIVE DaysBeforeMonth(_, _)
DaysBeforeMonth(y, m) ==
    IF m = 1 THEN 0 ELSE DaysBeforeMonth(y, m - 1) + DaysInMonth(y, m - 1)

\* days before January 1st of year y, counted from 0001-01-01
DaysBeforeYear(y) ==
    LET p == y - 1
    IN  p * 365 + p \div 4 - p \div 100 + p \div 400

\* the proleptic Gregorian ordinal: 0001-01-01 is day 1, a Monday
Ordinal(date) == DaysBeforeYear(date[1]) + DaysBeforeMonth(date[1], date[2]) + date[3]

\* the ordinal of the Monday that starts ISO week 1 of year y
IsoWeek1Monday(y) ==
    LET firstday == Ordinal(<<y, 1, 1>>)
        firstweekday == (firstday + 6) % 7
        week1monday == firstday - firstweekday
    IN  IF firstweekday > 3 THEN week1monday + 7 ELSE week1monday

\* <<ISO year, ISO week>> of a date
IsoCalendar(date) ==
    LET y == date[1]
        today == Ordinal(date)
    IN  IF today < IsoWeek1Monday(y)
            THEN <<y - 1, (today - IsoWeek1Monday(y - 1)) \div 7 + 1>>
        ELSE IF today >= IsoWeek1Monday(y + 1)
            THEN <<y + 1, 1>>
        ELSE <<y, (today - IsoWeek1Monday(y)) \div 7 + 1>>

\* df["Date"].dt.isocalendar().week
IsoWeek(date) == IsoCalendar(date)[2]

\* df["Date"].dt.year
CalendarYear(date) == date[1]

\* str(n) for n >= 0, as a sequence of characters
DigitChar == <<"0", "1", "2", "3", "4", "5", "6", "7", "8", "9">>

RECURSIVE Str(_)
Str(n) == IF n < 10 THEN <<DigitChar[n + 1]>>
          ELSE Str(n \div 10) \o <<DigitChar[(n % 10) + 1]>>

RECURSIVE ZFill(_, _)
ZFill(s, width) == IF Len(s) >= width THEN s ELSE ZFill(<<"0">> \o s, width)

\* line 564: Year.astype(str) + "-W" + Week.astype(str).str.zfill(2)
YearWeek(year, week) == Str(year) \o <<"-", "W">> \o ZFill(Str(week), 2)

-----------------------------------------------------------------------------
(* parse_uploaded_data: the renaming of the columns *)

column_mappings_chained ==
    [k \in {"Player Name", "Total Distance", "High Speed Running", "Sprint Distance",
            "Accels", "Decels", "Dynamic Stress Load", "Athlete Name",
            "Total Player Load", "Velocity Band 5 Total Distance",
            "Velocity Band 6 Total Distance",
            "Acceleration Band 3 Total Effort Count",
            "Deceleration Band 3 Total Effort Count"} |->
        CASE k = "Player Name" -> "Player"
          [] k = "Total Distance" -> "Total Distance (m)"
          [] k = "High Speed Running" -> "HSR Distance (m)"
          [] k = "Sprint Distance" -> "Sprint Distance (m)"
          [] k = "Accels" -> "Accelerations"
          [] k = "Decels" -> "Decelerations"
          [] k = "Dynamic Stress Load" -> "Player Load (AU)"
          [] k = "Athlete Name" -> "Player"
          [] k = "Total Player Load" -> "Dynamic Stress Load"
          [] k = "Velocity Band 5 Total Distance" -> "HSR Distance (m)"
          [] k = "Velocity Band 6 Total Distance" -> "Sprint Distance (m)"
          [] k = "Acceleration Band 3 Total Effort Count" -> "Accelerations"
          [] k = "Deceleration Band 3 Total Effort Count" -> "Decelerations"]

\* lines 363-380
column_mappings ==
    [k \in {"Player Name", "Total Distance", "High Speed Running", "Sprint Distance",
            "Accels", "Decels", "Dynamic Stress Load", "Athlete Name",
            "Total Player Load", "Velocity Band 5 Total Distance",
            "Velocity Band 6 Total Distance",
            "Acceleration Band 3 Total Effort Count",
            "Deceleration Band 3 Total Effort Count"} |->
        CASE k = "Player Name" -> "Player"
          [] k = "Total Distance" -> "Total Distance (m)"
          [] k = "High Speed Running" -> "HSR Distance (m)"
          [] k = "Sprint Distance" -> "Sprint Distance (m)"
          [] k = "Accels" -> "Accelerations"
          [] k = "Decels" -> "Decelerations"
          [] k = "Dynamic Stress Load" -> "Player Load (AU)"
          [] k = "Athlete Name" -> "Player"
          [] k = "Total Player Load" -> "Player Load (AU)"
          [] k = "Velocity Band 5 Total Distance" -> "HSR Distance (m)"
          [] k = "Velocity Band 6 Total Distance" -> "Sprint Distance (m)"
          [] k = "Acceleration Band 3 Total Effort Count" -> "Accelerations"
          [] k = "Deceleration Band 3 Total Effort Count" -> "Decelerations"]

\* line 383: df.rename(columns={k: v for k, v in column_mappings.items()
\* if k in df.columns}), on the sequence of column names
RenameColumns(headers) ==
    LET present == {k \in DOMAIN column_mappings : \E i \in 1..Len(headers) : headers[i] = k}
        renaming == [k \in present |-> column_mappings[k]]
    IN  [i \in 1..Len(headers) |->
           IF headers[i] \in DOMAIN renaming THEN renaming[headers[i]] ELSE headers[i]]

\* the canonical field names that are targets of the mapping
CanonicalTargets == {column_mappings[k] : k \in DOMAIN column_mappings}

\* header names a file can carry: vendor headers, canonical names, others
HeaderPool == DOMAIN column_mappings \cup CanonicalTargets \cup {"Date", "Notes"}

\* the header rows of an uploaded file: read_csv gives distinct column names
HeaderRows ==
    {h \in UNION {[1..k -> HeaderPool] : k \in 0..MaxHeaders} :
        \A i, j \in 1..Len(h) : i # j => h[i] # h[j]}

ParseCalls == {[fn |-> "parse_uploaded_data", headers |-> h] : h \in HeaderRows}

-----------------------------------------------------------------------------
(* The helper calls: Init draws a call, the actions make it *)

Metrics == DOMAIN FIELD_HOCKEY_BENCHMARKS

\* every number a benchmark entry names
Thresholds(metric) ==
    LET b == FIELD_HOCKEY_BENCHMARKS[metric]
    IN  {b.green[1], b.green[2], b.yellow[1], b.yellow[2],
         b.orange[1], b.orange[2], b.red_high, b.red_low}

\* "max_speed" is a metric of the table that has no benchmark entry
MetricKeys == Metrics \cup {"max_speed"}

TrafficLightCalls ==
    {[fn |-> "get_traffic_light", metric |-> m, value |-> t + d] :
        m \in MetricKeys, t \in UNION {Thresholds(k) : k \in Metrics},
        d \in -Delta..Delta}

AcwrStatusCalls ==
    {[fn |-> "get_acwr_status", acwr |-> a] :
        a \in {NoneValue, NanValue} \cup {Number(Rat(n, 20)) : n \in -1..MaxRatioNum}}

SeqsUpTo(S, n) == UNION {[1..k -> S] : k \in 0..n}

\* the worked examples of the documentation, made with the default arguments
ExampleCalls ==
    {[fn |-> "calculate_acwr", weekly_loads |-> l, acute_weeks |-> 1,
      chronic_weeks |-> 4] : l \in {<<500, 520, 510, 505>>, <<500, 520, 510>>}}

CalculateAcwrCalls ==
    {[fn |-> "calculate_acwr", weekly_loads |-> l, acute_weeks |-> a,
      chronic_weeks |-> c] :
        l \in SeqsUpTo(-1..MaxLoad, MaxLen), a \in 0..MaxAcute, c \in 0..MaxChronic}
    \cup ExampleCalls

NoCall == [fn |-> "none"]
NoResult == Raised("none")

\* the state of the table and of the rendering functions before any row is read
NoTable ==
    /\ df = <<>>
    /\ columns = {}
    /\ weekly = {}
    /\ weekly_player = {}
    /\ passed = <<>>
    /\ acwr_data = <<>>
    /\ acwr_df = <<>>
    /\ error = "none"

tableVars == <<df, columns, weekly, weekly_player, passed, acwr_data, acwr_df, error>>

Init ==
    /\ pc = "call"
    /\ call \in TrafficLightCalls \cup AcwrStatusCalls \cup CalculateAcwrCalls
                \cup ParseCalls
    /\ result = NoResult
    /\ NoTable

GetTrafficLight ==
    /\ pc = "call"
    /\ call.fn = "get_traffic_light"
    /\ result' = [kind |-> "zone", val |-> get_traffic_light(call.value, call.metric)]
    /\ pc' = "done"
    /\ UNCHANGED <<call, tableVars>>

GetAcwrStatus ==
    /\ pc = "call"
    /\ call.fn = "get_acwr_status"
    /\ result' = [kind |-> "status", val |-> get_acwr_status(call.acwr)]
    /\ pc' = "done"
    /\ UNCHANGED <<call, tableVars>>

CalculateAcwr ==
    /\ pc = "call"
    /\ call.fn = "calculate_acwr"
    /\ result' = calculate_acwr(call.weekly_loads, call.acute_weeks, call.chronic_weeks)
    /\ pc' = "done"
    /\ UNCHANGED <<call, tableVars>>

\* lines 358-385, as far as the column names go
ParseUploadedData ==
    /\ pc = "call"
    /\ call.fn = "parse_uploaded_data"
    /\ result' = [kind |-> "columns", val |-> RenameColumns(call.headers)]
    /\ pc' = "done"
    /\ UNCHANGED <<call, tableVars>>

\* line 383 applied to the column names it produced
RenameAgain ==
    /\ pc = "done"
    /\ call.fn = "parse_uploaded_data"
    /\ call' = [fn |-> "rename", headers |-> result.val]
    /\ result' = [kind |-> "columns", val |-> RenameColumns(result.val)]
    /\ pc' = "again"
    /\ UNCHANGED tableVars

Next ==
    \/ GetTrafficLight
    \/ GetAcwrStatus
    \/ CalculateAcwr
    \/ ParseUploadedData
    \/ RenameAgain

Spec == Init /\ [][Next]_vars

-----------------------------------------------------------------------------
(* Claims about the helper functions, checked under Spec *)

TrafficLightDone == pc = "done" /\ call.fn = "get_traffic_light"
AcwrStatusDone == pc = "done" /\ call.fn = "get_acwr_status"
CalculateAcwrDone == pc = "done" /\ call.fn = "calculate_acwr"

InBand(value, band) == band[1] <= value /\ value <= band[2]

\* C1: get_traffic_light returns gray exactly for a metric key without a
\* benchmark entry; otherwise the zone of the first matching rule in the order
\* red (value < redLow or value > redHigh), orange, yellow, green, and yellow
\* when no rule matches.
C1_FirstMatchingRule ==
    TrafficLightDone =>
        LET v == call.value
            m == call.metric
            z == result.val
        IN  /\ result.kind = "zone"
            /\ (z = "gray") <=> (m \notin Metrics)
            /\ m \in Metrics =>
                 LET b == FIELD_HOCKEY_BENCHMARKS[m]
                     isRed == v < b.red_low \/ v > b.red_high
                     isOrange == ~isRed /\ InBand(v, b.orange)
                     isYellow == ~isRed /\ ~isOrange /\ InBand(v, b.yellow)
                     isGreen == ~isRed /\ ~isOrange /\ ~isYellow /\ InBand(v, b.green)
                 IN  /\ isRed => z = "red"
                     /\ isOrange => z = "orange"
                     /\ isYellow => z = "yellow"
                     /\ isGreen => z = "green"
                     /\ (~isRed /\ ~isOrange /\ ~isYellow /\ ~isGreen) => z = "yellow"

\* a value in the gap between redLow and greenLow took the fallback
C1_Witness ==
    /\ TrafficLightDone
    /\ call.metric = "total_distance"
    /\ call.value = 5001
    /\ result.val = "yellow"

\* C2: a value on an edge shared by two bands gets the band checked earlier:
\* greenHigh = yellowLow is yellow, yellowHigh = orangeLow is orange,
\* orangeHigh = redHigh is orange, redLow is yellow; total_distance 8000 is
\* yellow, 9500 and 11000 are orange.
C2_SharedEdges ==
    (TrafficLightDone /\ call.metric \in Metrics) =>
        LET b == FIELD_HOCKEY_BENCHMARKS[call.metric]
            v == call.value
            z == result.val
        IN  /\ b.green[2] = b.yellow[1] /\ b.yellow[2] = b.orange[1]
            /\ b.orange[2] = b.red_high
            /\ v = b.green[2] => z = "yellow"
            /\ v = b.yellow[2] => z = "orange"
            /\ v = b.orange[2] => z = "orange"
            /\ v = b.red_low => z = "yellow"
            /\ (call.metric = "total_distance" /\ v = 8000) => z = "yellow"
            /\ (call.metric = "total_distance" /\ v \in {9500, 11000}) => z = "orange"

C2_Witness ==
    /\ TrafficLightDone
    /\ call.metric = "total_distance"
    /\ call.value = 11000
    /\ result.val = "orange"

\* C3: a series shorter than chronic_weeks gives None (not 0, not an
\* exception), so a number only comes from a series of length >= chronic_weeks.
C3_ShortSeriesIsNone ==
    CalculateAcwrDone =>
        /\ Len(call.weekly_loads) < call.chronic_weeks => result = NoneValue
        /\ result.kind = "num" => Len(call.weekly_loads) >= call.chronic_weeks

C3_Witness ==
    /\ CalculateAcwrDone
    /\ call.weekly_loads = <<500, 520, 510>>
    /\ call.chronic_weeks = 4
    /\ result = NoneValue

RECURSIVE Pow(_, _)
Pow(b, e) == IF e = 0 THEN 1 ELSE b * Pow(b, e - 1)

RECURSIVE SumTo(_, _)
SumTo(f, n) == IF n = 0 THEN 0 ELSE f[n] + SumTo(f, n - 1)

\* The chronic EWMA of a non-empty series x with lambda = 2/D, times
\* D^(n-1): the first element weighted (1-lambda)^(n-1), element i >= 2
\* weighted lambda*(1-lambda)^(n-i).
ChronicTimesPow(x, D) ==
    LET n == Len(x)
    IN  SumTo([i \in 1..n |->
                 IF i = 1 THEN x[1] * Pow(D - 2, n - 1)
                 ELSE 2 * x[i] * Pow(D, i - 2) * Pow(D - 2, n - i)], n)

LongEnough ==
    /\ CalculateAcwrDone
    /\ Len(call.weekly_loads) >= call.chronic_weeks
    /\ Len(call.weekly_loads) >= 1

\* C4: a series of length >= chronic_weeks whose chronic EWMA is exactly 0
\* gives None; the division is never made with a zero divisor.
C4_ZeroChronicIsNone ==
    (LongEnough /\ ChronicTimesPow(call.weekly_loads, call.chronic_weeks * 7 + 1) = 0)
        => result = NoneValue

\* a chronic EWMA of 0 from loads that are not all 0
C4_Witness ==
    /\ LongEnough
    /\ call.chronic_weeks >= 1
    /\ \E i \in 1..Len(call.weekly_loads) : call.weekly_loads[i] # 0
    /\ ChronicTimesPow(call.weekly_loads, call.chronic_weeks * 7 + 1) = 0
    /\ result = NoneValue

\* C5: with a non-zero chronic EWMA the result is last element / chronic,
\* chronic seeded with the first element and folded with lambda =
\* 2/(chronic_weeks*7+1); acute_weeks has no influence.
C5_RatioIsLastOverChronic ==
    LET D == call.chronic_weeks * 7 + 1
        x == call.weekly_loads
    IN  (LongEnough /\ ChronicTimesPow(x, D) # 0) =>
            result = Number(Rat(Last(x) * Pow(D, Len(x) - 1), ChronicTimesPow(x, D)))

C5_Witness ==
    /\ LongEnough
    /\ call.acute_weeks = 2
    /\ call.weekly_loads = <<1, 2, 3, 2>>
    /\ call.chronic_weeks = 4
    /\ result.kind = "num"

\* floor(n/d * 10^k) and the remainder, by long division (n >= 0, d > 0)
RECURSIVE Scaled(_, _, _)
Scaled(n, d, k) ==
    IF k = 0 THEN <<n \div d, n % d>>
    ELSE LET p == Scaled(n, d, k - 1)
         IN  <<p[1] * 10 + (p[2] * 10) \div d, (p[2] * 10) % d>>

\* r rounded to k decimals, as an integer number of 10^-k
Rounded(r, k) ==
    LET p == Scaled(r[1], r[2], k)
    IN  p[1] + (IF 2 * p[2] >= r[2] THEN 1 ELSE 0)

DocumentedExample ==
    /\ CalculateAcwrDone
    /\ call.weekly_loads = <<500, 520, 510, 505>>
    /\ call.chronic_weeks = 4

ExampleChronic ==
    ewma_fold(call.weekly_loads, 2, FromInt(call.weekly_loads[1]),
              Rat(2, call.chronic_weeks * 7 + 1))

\* C6 as stated: calculate_acwr([500, 520, 510, 505]) uses lambda 2/29, folds
\* to a chronic EWMA of 502.14, returns 1.0057, status (green, Optimal).
C6_AsStated ==
    DocumentedExample =>
        /\ Rat(2, call.chronic_weeks * 7 + 1) = <<2, 29>>
        /\ Rounded(ExampleChronic, 2) = 50214
        /\ result.kind = "num"
        /\ Rounded(result.val, 4) = 10057
        /\ get_acwr_status(result) = <<"green", "Optimal">>

\* C6 amended: calculate_acwr([500, 520, 510, 505]) uses lambda 2/29, folds
\* to a chronic EWMA of 502.18, returns 1.0056, status (green, Optimal).
C6_Amended ==
    DocumentedExample =>
        /\ Rat(2, call.chronic_weeks * 7 + 1) = <<2, 29>>
        /\ Rounded(ExampleChronic, 2) = 50218
        /\ result.kind = "num"
        /\ Rounded(result.val, 4) = 10056
        /\ get_acwr_status(result) = <<"green", "Optimal">>

C6_Witness == DocumentedExample /\ result.kind = "num"

\* C7: get_acwr_status maps 0.8 <= r <= 1.3 to (green, Optimal), 0.6 <= r <
\* 0.8 to (yellow, Undertraining), 1.3 < r <= 1.5 to (yellow, High Load),
\* r < 0.6 to (red, Detraining Risk), r > 1.5 to (red, Injury Risk) and None
\* to (gray, No data); Injury Risk is returned exactly when r > 1.5.
C7_StatusMapping ==
    AcwrStatusDone =>
        LET a == call.acwr
            n == a.val[1]
            d == a.val[2]
            st == result.val
            isNum == a.kind = "num"
        IN  /\ result.kind = "status"
            /\ a.kind = "None" => st = <<"gray", "No data">>
            /\ (isNum /\ 8 * d <= 10 * n /\ 10 * n <= 13 * d) => st = <<"green", "Optimal">>
            /\ (isNum /\ 6 * d <= 10 * n /\ 10 * n < 8 * d)
                   => st = <<"yellow", "Undertraining">>
            /\ (isNum /\ 13 * d < 10 * n /\ 10 * n <= 15 * d)
                   => st = <<"yellow", "High Load">>
            /\ (isNum /\ 10 * n < 6 * d) => st = <<"red", "Detraining Risk">>
            /\ (st = <<"red", "Injury Risk">>) <=> (isNum /\ 10 * n > 15 * d)
            /\ a = Number(<<7, 5>>) => st = <<"yellow", "High Load">>
            /\ a = Number(<<11, 20>>) => st = <<"red", "Detraining Risk">>
            /\ a = Number(<<31, 20>>) => st = <<"red", "Injury Risk">>

C7_Witness ==
    /\ AcwrStatusDone
    /\ call.acwr = Number(<<31, 20>>)
    /\ result.val = <<"red", "Injury Risk">>

\* C15: for non-negative weekly loads, length >= chronic_weeks >= 1,
\* calculate_acwr returns None exactly when every load is 0; otherwise it
\* returns a ratio >= 0, which is 0 exactly when the last load is 0.
C15_NonNegativeLoads ==
    LET x == call.weekly_loads
        allZero == \A i \in 1..Len(x) : x[i] = 0
    IN  (LongEnough /\ call.chronic_weeks >= 1 /\ \A i \in 1..Len(x) : x[i] >= 0) =>
            /\ (result = NoneValue) <=> allZero
            /\ ~allZero =>
                 /\ result.kind = "num"
                 /\ result.val[1] >= 0
                 /\ (result.val[1] = 0) <=> (Last(x) = 0)

\* a ratio of 0 from a history that is not all 0
C15_Witness ==
    /\ LongEnough
    /\ call.chronic_weeks = 3
    /\ call.weekly_loads = <<1, 2, 0>>
    /\ result = Number(<<0, 1>>)

\* C11: column normalization is idempotent: renaming twice gives the same
\* headers in the same order as renaming once, because no key of the mapping
\* table is also a value of it; headers that are not keys are left unchanged.
C11_RenameIdempotent ==
    /\ DOMAIN column_mappings \cap {column_mappings[k] : k \in DOMAIN column_mappings} = {}
    /\ (pc = "done" /\ call.fn = "parse_uploaded_data") =>
          /\ Len(result.val) = Len(call.headers)
          /\ \A i \in 1..Len(call.headers) :
                IF call.headers[i] \in DOMAIN column_mappings
                THEN result.val[i] = column_mappings[call.headers[i]]
                ELSE result.val[i] = call.headers[i]
    /\ (pc = "again") => result.val = call.headers

\* a vendor header was renamed, an unknown one kept, and the second
\* renaming has been applied
C11_Witness ==
    /\ pc = "again"
    /\ call.headers = <<"Player Load (AU)", "Notes">>
    /\ result.val = <<"Player Load (AU)", "Notes">>

-----------------------------------------------------------------------------
(* The record table and the two rendering functions that aggregate it *)

\* The columns of the table the aggregation reads.  The chart sums two more
\* columns the same way as "Player Load (AU)"; they are not modelled.
BaseColumns == {"Date", "Player", "Player Load (AU)"}

Players == {"Player 1", "Player 2"}

\* Mondays of ISO weeks 2024-W51, 2024-W52, 2025-W01, 2025-W02 and 2026-W01
Dates == {<<2024, 12, 16>>, <<2024, 12, 23>>, <<2024, 12, 30>>, <<2025, 1, 6>>,
          <<2025, 12, 29>>}

Loads == {0, 1}

Row(player, date, load) ==
    ("Date" :> date) @@ ("Player" :> player) @@ ("Player Load (AU)" :> load)

\* df[name] = values, row by row (an existing column is overwritten)
WithColumn(table, name, values) ==
    [i \in 1..Len(table) |-> (name :> values[i]) @@ table[i]]

\* A cell that holds NaN.  A row read from a file carries, under "isna", the
\* names of its columns whose cell is NaN (the cell itself then holds a
\* placeholder); a row built in memory has no NaN cell.
IsNa(row, col) == "isna" \in DOMAIN row /\ col \in row["isna"]

RECURSIVE SumLoad(_, _)
\* the "sum" aggregation of "Player Load (AU)" over the rows of table in idx;
\* pandas sums with skipna: a NaN cell adds nothing, and a group of NaN
\* cells only sums to 0
SumLoad(table, idx) ==
    IF idx = {} THEN 0
    ELSE LET i == CHOOSE j \in idx : TRUE
         IN  (IF IsNa(table[i], "Player Load (AU)") THEN 0
              ELSE table[i]["Player Load (AU)"]) + SumLoad(table, idx \ {i})

RECURSIVE Unique(_)
\* Series.unique(): the distinct values in order of first appearance
Unique(values) ==
    IF values = <<>> THEN <<>>
    ELSE LET front == Unique(SubSeq(values, 1, Len(values) - 1))
             v == values[Len(values)]
         IN  IF \E i \in 1..Len(front) : front[i] = v THEN front
             ELSE Append(front, v)

Column(table, name) == [i \in 1..Len(table) |-> table[i][name]]

\* df.groupby(keys)["Player Load (AU)"].sum().reset_index(), as the set of
\* its rows (its only readers select rows by key)
GroupSum(table, keys) ==
    LET keyOf(i) == [k \in keys |-> table[i][k]]
        groups == {keyOf(i) : i \in 1..Len(table)}
    IN  {g @@ ("Player Load (AU)" :>
                 SumLoad(table, {i \in 1..Len(table) : keyOf(i) = g})) : g \in groups}

RECURSIVE SortedByWeek(_)
\* frame.sort_values("Week"), for a frame given as a set of rows
SortedByWeek(rows) ==
    IF rows = {} THEN <<>>
    ELSE LET least == CHOOSE r \in rows : \A q \in rows : r["Week"] <= q["Week"]
         IN  <<least>> \o SortedByWeek(rows \ {least})

AppendRow ==
    /\ pc = "load"
    /\ Len(df) < MaxRows
    /\ \E player \in Players, date \in Dates, load \in Loads :
           df' = Append(df, Row(player, date, load))
    /\ UNCHANGED <<pc, call, result, columns, weekly, weekly_player, passed,
                   acwr_data, acwr_df, error>>

\* lines 561-570 of render_weekly_load_chart; main() calls it on a non-empty
\* table.  (\E over a singleton names a value computed once.)
RenderWeeklyLoadChart ==
    /\ pc = "load"
    /\ Len(df) > 0
    /\ \E week \in {[i \in 1..Len(df) |-> IsoWeek(df[i]["Date"])]} :
       \E year \in {[i \in 1..Len(df) |-> CalendarYear(df[i]["Date"])]} :
       \E yearweek \in {[i \in 1..Len(df) |-> YearWeek(year[i], week[i])]} :
       \E table \in {WithColumn(WithColumn(WithColumn(df, "Week", week), "Year", year),
                                "YearWeek", yearweek)} :
           /\ df' = table
           /\ columns' = columns \cup {"Week", "Year", "YearWeek"}
           /\ weekly' = GroupSum(table, {"YearWeek"})
    /\ pc' = "charted"
    /\ UNCHANGED <<call, result, weekly_player, passed, acwr_data, acwr_df, error>>

\* the truth value of `if acwr:` (line 626)
Truthy(acwr) == acwr.kind = "nan" \/ (acwr.kind = "num" /\ acwr.val[1] # 0)

\* lines 621-625: for one player, the frame player_weeks, the list
\* weekly_loads and the value of calculate_acwr(weekly_loads)
PlayerCall(grouped, player) ==
    LET player_weeks == SortedByWeek({r \in grouped : r["Player"] = player})
        weekly_loads == Column(player_weeks, "Player Load (AU)")
    IN  [Player |-> player, player_weeks |-> player_weeks,
         weekly_loads |-> weekly_loads,
         acwr |-> calculate_acwr(weekly_loads, 1, 4)]

\* lines 626-633: the entry appended to acwr_data
AcwrEntry(c) ==
    LET status == get_acwr_status(c.acwr)
    IN  [Player |-> c.Player, ACWR |-> c.acwr, Status |-> status[2], Color |-> status[1]]

RECURSIVE SelectEntries(_)
SelectEntries(calls) ==
    IF calls = <<>> THEN <<>>
    ELSE LET rest == SelectEntries(Tail(calls))
         IN  IF Truthy(Head(calls).acwr) THEN <<AcwrEntry(Head(calls))>> \o rest
             ELSE rest

\* sort_values("ACWR", ascending=False): every arrangement of the entries
\* that descends by ACWR (the order among equal ratios is left open)
SortedDescending(entries) ==
    {[i \in 1..Len(entries) |-> entries[p[i]]] : p \in
        {q \in Permutations(1..Len(entries)) :
            \A i \in 1..(Len(entries) - 1) :
                RLe(entries[q[i + 1]].ACWR.val, entries[q[i]].ACWR.val)}}

\* lines 614-635 of render_acwr_monitor, on a non-empty table
RenderAcwrMonitor ==
    /\ pc \in {"load", "charted"}
    /\ Len(df) > 0
    /\ \E week \in {[i \in 1..Len(df) |-> IsoWeek(df[i]["Date"])]} :
       \E table \in {WithColumn(df, "Week", week)} :
       \E grouped \in {GroupSum(table, {"Player", "Week"})} :
       \E players \in {Unique(Column(table, "Player"))} :
       \E calls \in {[i \in 1..Len(players) |-> PlayerCall(grouped, players[i])]} :
       \E entries \in {SelectEntries(calls)} :
           /\ df' = table
           /\ columns' = columns \cup {"Week"}
           /\ weekly_player' = grouped
           /\ passed' = calls
           /\ acwr_data' = entries
           /\ IF entries = <<>>
                 \* pd.DataFrame([]) has no column "ACWR" to sort by
                 THEN acwr_df' = acwr_df /\ error' = "KeyError"
                 ELSE acwr_df' \in SortedDescending(entries) /\ error' = error
    /\ pc' = "monitored"
    /\ UNCHANGED <<call, result, weekly>>

InitMonitor ==
    /\ pc = "load"
    /\ call = NoCall
    /\ result = NoResult
    /\ df = <<>>
    /\ columns = BaseColumns
    /\ weekly = {}
    /\ weekly_player = {}
    /\ passed = <<>>
    /\ acwr_data = <<>>
    /\ acwr_df = <<>>
    /\ error = "none"

NextMonitor == AppendRow \/ RenderWeeklyLoadChart \/ RenderAcwrMonitor

SpecMonitor == InitMonitor /\ [][NextMonitor]_vars

-----------------------------------------------------------------------------
(* Claims about the aggregation and the ACWR run, checked under SpecMonitor *)

MonitorDone == pc = "monitored"
ChartDone == pc = "charted"

RowsOf(player) == {i \in 1..Len(df) : df[i]["Player"] = player}
PlayersOfTable == {df[i]["Player"] : i \in 1..Len(df)}
IsoWeeksOf(player) == {IsoCalendar(df[i]["Date"]) : i \in RowsOf(player)}
RowsInIsoWeek(player, yw) == {i \in RowsOf(player) : IsoCalendar(df[i]["Date"]) = yw}

\* C8 as stated: after an ACWR run every athlete of the table has exactly
\* one result: the ratio calculate_acwr gave (0 included) with the zone and
\* status of get_acwr_status, or, for the sentinel, ratio null, gray, "No data".
C8_AsStated ==
    MonitorDone =>
        \A i \in 1..Len(passed) :
            LET c == passed[i]
                es == {k \in 1..Len(acwr_data) : acwr_data[k].Player = c.Player}
            IN  /\ Cardinality(es) = 1
                /\ \A k \in es :
                     IF c.acwr.kind = "num"
                     THEN /\ acwr_data[k].ACWR = c.acwr
                          /\ <<acwr_data[k].Color, acwr_data[k].Status>>
                               = get_acwr_status(c.acwr)
                     ELSE /\ acwr_data[k].ACWR = NoneValue
                          /\ acwr_data[k].Color = "gray"
                          /\ acwr_data[k].Status = "No data"

\* C9 as stated: the weekly aggregation has, for each athlete, exactly one
\* aggregate per distinct ISO week (ISO year and week number) of that
\* athlete's records, whose sum is the sum of the athlete's records of that
\* ISO week; records of different ISO weeks never share an aggregate.
C9_AsStated ==
    MonitorDone =>
        \A p \in PlayersOfTable :
            LET aggs == {r \in weekly_player : r["Player"] = p}
            IN  /\ Cardinality(aggs) = Cardinality(IsoWeeksOf(p))
                /\ \A yw \in IsoWeeksOf(p) :
                     \E r \in aggs :
                        /\ r["Week"] = yw[2]
                        /\ r["Player Load (AU)"] = SumLoad(df, RowsInIsoWeek(p, yw))

\* The same statement read on the frame `weekly` of render_weekly_load_chart,
\* which is keyed by calendar year and ISO week number and not by athlete.
C9_ChartAsStated ==
    ChartDone =>
        /\ Cardinality(weekly)
             = Cardinality({<<p, yw>> \in PlayersOfTable \X {IsoCalendar(d) : d \in Dates} :
                              yw \in IsoWeeksOf(p)})
        /\ \A p \in PlayersOfTable :
             \A yw \in IsoWeeksOf(p) :
                \E r \in weekly :
                   r["Player Load (AU)"] = SumLoad(df, RowsInIsoWeek(p, yw))

\* C10 as stated: the weekly loads passed to calculate_acwr are in
\* chronological order of their weeks: the first is the athlete's earliest
\* week, the last (the acute load) the athlete's most recent week.
C10_AsStated ==
    MonitorDone =>
        \A k \in 1..Len(passed) :
            LET c == passed[k]
                rows == RowsOf(c.Player)
                earliest == CHOOSE i \in rows :
                              \A j \in rows : Ordinal(df[i]["Date"]) <= Ordinal(df[j]["Date"])
                latest == CHOOSE i \in rows :
                              \A j \in rows : Ordinal(df[j]["Date"]) <= Ordinal(df[i]["Date"])
                weekOf(n) == c.player_weeks[n]["Week"]
            IN  /\ c.weekly_loads = Column(c.player_weeks, "Player Load (AU)")
                /\ weekOf(1) = IsoWeek(df[earliest]["Date"])
                /\ weekOf(Len(c.player_weeks)) = IsoWeek(df[latest]["Date"])
                /\ \A m, n \in 1..Len(c.player_weeks) :
                     m < n =>
                        \A i, j \in rows :
                           (IsoWeek(df[i]["Date"]) = weekOf(m)
                              /\ IsoWeek(df[j]["Date"]) = weekOf(n))
                           => Ordinal(df[i]["Date"]) < Ordinal(df[j]["Date"])

\* C14 as stated: an aggregation pass or an ACWR run leaves its input as it
\* was: after render_weekly_load_chart or render_acwr_monitor the record
\* table has the same columns and the same values as before the call.  (The
\* benchmark and zone tables are constants of the program and of the model.)
C14_AsStated ==
    [][(pc' # pc /\ pc' \in {"charted", "monitored"})
          => (df' = df /\ columns' = columns)]_vars

-----------------------------------------------------------------------------
(* generate_sample_data(n_players, n_weeks), called at the time `now` *)

\* the date with a given ordinal (the inverse of Ordinal)
DateOfOrdinal(n) ==
    LET y == CHOOSE c \in (n \div 366)..(n \div 365 + 1) :
                DaysBeforeYear(c) < n /\ n <= DaysBeforeYear(c + 1)
        doy == n - DaysBeforeYear(y)
        m == CHOOSE c \in 1..12 :
                DaysBeforeMonth(y, c) < doy /\ doy <= DaysBeforeMonth(y, c) + DaysInMonth(y, c)
    IN  <<y, m, doy - DaysBeforeMonth(y, m)>>

\* strftime("%Y-%m-%d")
FormatDate(date) ==
    ZFill(Str(date[1]), 4) \o <<"-">> \o ZFill(Str(date[2]), 2) \o <<"-">>
        \o ZFill(Str(date[3]), 2)

\* np.random.seed(42): the generator restarts from the same state on every
\* call, so the k-th draw of a call is a fixed number in [0, 1).  The stream
\* is modelled by a small linear congruential generator, not by the Mersenne
\* Twister; what is kept is that it depends on the seed and on k alone.
Seed == 42

RECURSIVE RandomState(_)
RandomState(k) == IF k = 0 THEN Seed % 16 ELSE (5 * RandomState(k - 1) + 3) % 16

\* the k-th np.random.uniform(low, high) of a call
Uniform(k, low, high) == RAdd(low, RMul(RSub(high, low), Rat(RandomState(k), 16)))

positions == <<"GK", "DEF", "DEF", "DEF", "MID", "MID", "MID", "MID", "FWD", "FWD">>

\* int(x) for x >= 0
IntOf(r) == r[1] \div r[2]

\* round(x, 1) for x >= 0, in tenths
RoundTenths(r) == (20 * r[1] + r[2]) \div (2 * r[2])

\* lines 324-353: the record of one player in one session; `row` counts the
\* records made before it, each of which took three draws
SampleRecord(start_date, n_weeks, week, session, i, row) ==
    LET session_date == start_date + 7 * week + 2 * session
        session_type == IF session = 3 THEN "Match" ELSE "Training"
        pos == positions[((i - 1) % Len(positions)) + 1]
        pos_factor == IF pos = "MID" THEN Rat(1, 1)
                      ELSE IF pos \in {"DEF", "FWD"} THEN Rat(9, 10) ELSE Rat(6, 10)
        match_factor == IF session_type = "Match" THEN Rat(13, 10) ELSE Rat(1, 1)
        week_factor == RAdd(Rat(85, 100), RMul(Rat(week, n_weeks), Rat(3, 10)))
        rand_factor == Uniform(3 * row + 1, Rat(85, 100), Rat(115, 100))
        combined == RMul(RMul(RMul(pos_factor, match_factor), week_factor), rand_factor)
    IN  [Date |-> FormatDate(DateOfOrdinal(session_date)),
         Player |-> <<"Player ">> \o Str(i),
         Position |-> pos,
         SessionType |-> session_type,
         Duration |-> IntOf(RMul(RMul(FromInt(90), match_factor),
                                 Uniform(3 * row + 2, Rat(9, 10), Rat(11, 10)))),
         TotalDistance |-> IntOf(RMul(FromInt(6500), combined)),
         HSRDistance |-> IntOf(RMul(FromInt(1200), combined)),
         SprintDistance |-> IntOf(RMul(FromInt(300), combined)),
         Accelerations |-> IntOf(RMul(FromInt(60), combined)),
         Decelerations |-> IntOf(RMul(FromInt(55), combined)),
         PlayerLoad |-> RoundTenths(RMul(FromInt(650), combined)),
         MaxSpeed |-> RoundTenths(RAdd(FromInt(28),
                                       Uniform(3 * row + 3, FromInt(-3), FromInt(3))))]

\* lines 309-355; `now` is the ordinal of the day datetime.now() falls on
generate_sample_data(n_players, n_weeks, now) ==
    LET start_date == now - 7 * n_weeks
    IN  [r \in 1..(n_weeks * 4 * n_players) |->
           LET week == (r - 1) \div (4 * n_players)
               session == ((r - 1) \div n_players) % 4
               i == ((r - 1) % n_players) + 1
           IN  SampleRecord(start_date, n_weeks, week, session, i, r - 1)]

\* the days on which the generator is called
FirstDay == Ordinal(<<2024, 12, 20>>)
CallDays == FirstDay..(FirstDay + MaxDays)

InitGenerate ==
    /\ pc = "start"
    /\ call = NoCall
    /\ result = NoResult
    /\ NoTable

\* main(), line 887, on a first run
GenerateSampleData ==
    /\ pc = "start"
    /\ \E n_players \in 1..MaxPlayers, n_weeks \in 1..MaxWeeks, now \in CallDays :
          /\ call' = [fn |-> "generate_sample_data", n_players |-> n_players,
                      n_weeks |-> n_weeks, now |-> now]
          /\ result' = [kind |-> "table",
                        val |-> generate_sample_data(n_players, n_weeks, now)]
    /\ pc' = "generated"
    /\ UNCHANGED tableVars

\* main(), line 887, on a later run: the same arguments at another time
GenerateAgain ==
    /\ pc = "generated"
    /\ \E now \in CallDays :
          /\ call' = [call EXCEPT !.now = now]
          /\ result' = [kind |-> "table",
                        val |-> generate_sample_data(call.n_players, call.n_weeks, now)]
    /\ UNCHANGED <<pc, tableVars>>

NextGenerate == GenerateSampleData \/ GenerateAgain

SpecGenerate == InitGenerate /\ [][NextGenerate]_vars

\* C12 as stated: two calls of generate_sample_data with the same n_players
\* and n_weeks return identical tables, Date included, whenever they are made.
C12_AsStated ==
    [][(/\ call.fn = "generate_sample_data"
        /\ call'.fn = "generate_sample_data"
        /\ call'.n_players = call.n_players
        /\ call'.n_weeks = call.n_weeks) => result' = result]_vars

-----------------------------------------------------------------------------
(* An uploaded file: read_csv, the renaming, and the two rendering functions *)

\* texts that pd.read_csv (line 360) reads as NaN, among its defaults
na_values == {<<>>, <<"N", "/", "A">>, <<"N", "A">>, <<"N", "a", "N">>,
              <<"n", "a", "n">>, <<"n", "u", "l", "l">>}

IsDigits(text) ==
    /\ Len(text) > 0
    /\ \A i \in 1..Len(text) : \E d \in 1..10 : DigitChar[d] = text[i]

DigitOf(ch) == (CHOOSE d \in 1..10 : DigitChar[d] = ch) - 1

RECURSIVE ParseInt(_)
ParseInt(text) ==
    IF text = <<>> THEN 0
    ELSE ParseInt(SubSeq(text, 1, Len(text) - 1)) * 10 + DigitOf(text[Len(text)])

\* pd.to_datetime of a "YYYY-MM-DD" text (line 901)
ParseDate(text) ==
    <<ParseInt(SubSeq(text, 1, 4)), ParseInt(SubSeq(text, 6, 7)),
      ParseInt(SubSeq(text, 9, 10))>>

IndexOf(names, k) == CHOOSE j \in 1..Len(names) : names[j] = k
NamesOf(names) == {names[j] : j \in 1..Len(names)}

\* pd.read_csv(uploaded_file) (line 360): a column whose cells are all
\* numerals or NaN texts becomes numeric, with NaN for the NaN texts; any
\* other column keeps its texts.  No cell is refused.
read_csv(headers, records) ==
    LET isna(r, j) == records[r][j] \in na_values
        numeric(j) == \A r \in 1..Len(records) :
                          isna(r, j) \/ IsDigits(records[r][j])
        cell(r, j) == IF isna(r, j) THEN 0
                      ELSE IF numeric(j) THEN ParseInt(records[r][j])
                      ELSE records[r][j]
    IN  [r \in 1..Len(records) |->
          [k \in NamesOf(headers) \cup {"isna"} |->
             IF k = "isna" THEN {headers[j] : j \in {i \in 1..Len(headers) : isna(r, i)}}
             ELSE cell(r, IndexOf(headers, k))]]

\* line 383 on the whole table: every column under its new name
RenameTable(table, headers) ==
    LET names == RenameColumns(headers)
    IN  [r \in 1..Len(table) |->
          [k \in NamesOf(names) \cup {"isna"} |->
             IF k = "isna" THEN {names[IndexOf(headers, h)] : h \in table[r]["isna"]}
             ELSE table[r][headers[IndexOf(names, k)]]]]

\* lines 358-385
parse_uploaded_data(headers, records) ==
    RenameTable(read_csv(headers, records), headers)

\* the header line of a Catapult export with the three columns the
\* aggregation reads
UploadHeaders == <<"Date", "Athlete Name", "Total Player Load">>

\* the texts drawn for a cell of the load column
CellTexts == {<<"0">>, <<"1">>, <<"N", "/", "A">>}

FileRecord(date, text) == <<FormatDate(date), <<"P", "1">>, text>>

InitUpload ==
    /\ pc = "file"
    /\ call = [fn |-> "upload", headers |-> UploadHeaders, records |-> <<>>]
    /\ result = NoResult
    /\ NoTable

\* one more line in the file the user is about to upload
AddRecord ==
    /\ pc = "file"
    /\ Len(call.records) < MaxRows
    /\ \E date \in Dates, text \in CellTexts :
           call' = [call EXCEPT !.records = Append(@, FileRecord(date, text))]
    /\ UNCHANGED <<pc, result>>
    /\ UNCHANGED tableVars

\* render_sidebar line 423 and main lines 896-901: the file is parsed, a
\* non-empty table goes on, and its Date column is converted
UploadCsv ==
    /\ pc = "file"
    /\ \E table \in {parse_uploaded_data(call.headers, call.records)} :
           /\ Len(table) > 0
           /\ df' = WithColumn(table, "Date",
                               [i \in 1..Len(table) |-> ParseDate(table[i]["Date"])])
           /\ columns' = NamesOf(RenameColumns(call.headers))
    /\ pc' = "load"
    /\ UNCHANGED <<call, result, weekly, weekly_player, passed, acwr_data,
                   acwr_df, error>>

NextUpload == AddRecord \/ UploadCsv \/ RenderWeeklyLoadChart \/ RenderAcwrMonitor

SpecUpload == InitUpload /\ [][NextUpload]_vars

\* the uploaded file has a record whose load is not a number
HasNonNumericLoad ==
    /\ call.fn = "upload"
    /\ \E r \in 1..Len(call.records) :
           ~IsDigits(call.records[r][IndexOf(call.headers, "Total Player Load")])

\* C13: a session record with a non-numeric value in a required numeric field
\* is rejected before aggregation: no weekly aggregate and no ACWR result is
\* ever computed from a table that contains such a record.
C13_AsStated ==
    HasNonNumericLoad => (weekly = {} /\ weekly_player = {} /\ acwr_data = <<>>)

====
